---- MODULE Spec2Model ----
(***************************************************************************)
(* setup.py of anomalib: the module-level build sequence.                  *)
(*                                                                         *)
(* A Python str is modelled as a sequence of one-character strings, so    *)
(* that strip, startswith, split and int are computed character by         *)
(* character as the interpreter computes them.                             *)
(***************************************************************************)
EXTENDS Naturals, Sequences, FiniteSets, TLC

\* ------------------------------------------------------------------ bounds

\* most characters of the requirement file read by SpecCollect
MaxFileLen == 5
\* most lines of requirements/installer.txt (Spec)
MaxInstallerLines == 2
\* most lines of an extras requirement file (SpecExtras)
MaxExtraLines == 1
\* largest major / minor component of an installed cv2 version
MaxComp == 5

\* ------------------------------------------------------- Python str and list

SeqsUpTo(S, n) == UNION {[1..k -> S] : k \in 0..n}

\* the characters str.strip() removes when called without argument
Whitespace == {" ", "\t", "\n", "\r"}

RECURSIVE LStrip(_)
LStrip(s) ==
    IF s # <<>> /\ Head(s) \in Whitespace THEN LStrip(Tail(s)) ELSE s

RECURSIVE RStrip(_)
RStrip(s) ==
    IF s # <<>> /\ s[Len(s)] \in Whitespace
    THEN RStrip(SubSeq(s, 1, Len(s) - 1))
    ELSE s

\* strip() that leaves the trailing whitespace
StripLeft(s) == LStrip(s)

\* str.strip()
Strip(s) == RStrip(LStrip(s))

\* str.startswith(prefix)
StartsWith(s, prefix) ==
    /\ Len(s) >= Len(prefix)
    /\ SubSeq(s, 1, Len(prefix)) = prefix

\* str.startswith(("#", "-f"))
StartsWithMarker(s) == StartsWith(s, <<"#">>) \/ StartsWith(s, <<"-", "f">>)

\* str.split(sep), sep not empty
RECURSIVE SplitFrom(_, _, _)
SplitFrom(s, sep, i) ==
    IF i + Len(sep) - 1 > Len(s) THEN <<s>>
    ELSE IF SubSeq(s, i, i + Len(sep) - 1) = sep
         THEN <<SubSeq(s, 1, i - 1)>>
              \o SplitFrom(SubSeq(s, i + Len(sep), Len(s)), sep, 1)
         ELSE SplitFrom(s, sep, i + 1)

Split(s, sep) == SplitFrom(s, sep, 1)

DigitChars == <<"0", "1", "2", "3", "4", "5", "6", "7", "8", "9">>

IsDigit(c) == \E d \in 1..10 : DigitChars[d] = c

DigitVal(c) == (CHOOSE d \in 1..10 : DigitChars[d] = c) - 1

\* int(s) raises ValueError unless s, stripped, is a non-empty run of digits
\* (signs and underscores do not occur in the alphabet of the model)
IsInt(s) ==
    /\ Strip(s) # <<>>
    /\ \A i \in 1..Len(Strip(s)) : IsDigit(Strip(s)[i])

RECURSIVE DigitsVal(_)
DigitsVal(s) ==
    IF s = <<>> THEN 0
    ELSE 10 * DigitsVal(SubSeq(s, 1, Len(s) - 1)) + DigitVal(s[Len(s)])

\* int(s), for IsInt(s)
IntVal(s) == DigitsVal(Strip(s))

\* str(n) for a natural number n
RECURSIVE NatToStr(_)
NatToStr(n) ==
    IF n < 10 THEN <<DigitChars[n + 1]>>
    ELSE NatToStr(n \div 10) \o <<DigitChars[(n % 10) + 1]>>

\* index of the first element equal to x, 0 when there is none
RECURSIVE IndexFrom(_, _, _)
IndexFrom(list, x, i) ==
    IF i > Len(list) THEN 0
    ELSE IF list[i] = x THEN i
    ELSE IndexFrom(list, x, i + 1)

RemoveAt(list, i) == SubSeq(list, 1, i - 1) \o SubSeq(list, i + 1, Len(list))

\* list.remove(x), for x in list: removes the first element equal to x
ListRemove(list, x) == RemoveAt(list, IndexFrom(list, x, 1))

\* ------------------------------------------------------------ the inputs

\* the text "opencv-python"
OPENCV == <<"o", "p", "e", "n", "c", "v", "-", "p", "y", "t", "h", "o", "n">>

GE == <<">", "=">>

DOT == <<".">>

\* a version text "M.m.p"
VerStr(M, m, p) == NatToStr(M) \o DOT \o NatToStr(m) \o DOT \o NatToStr(p)

\* the requirement "opencv-python>=M.m.0"
OcvReq(M, m) == OPENCV \o GE \o VerStr(M, m, 0)

\* cv2.__version__ is OpenCV's CV_VERSION, "major.minor.revision"
InstalledVersions == {<<M, m>> : M \in 3..MaxComp, m \in 3..MaxComp}

\* the minimum versions the installer file of the model asks for
RequiredVersions == {<<4, 5>>, <<5, 4>>}

\* a file that does not exist, a file that is not UTF-8, a text file
Missing == [kind |-> "missing", text |-> <<>>]

Undecodable == [kind |-> "bad", text |-> <<>>]

\* the text of a file with these lines, each ended by a newline
RECURSIVE Join(_)
Join(lines) ==
    IF lines = <<>> THEN <<>> ELSE Head(lines) \o <<"\n">> \o Join(Tail(lines))

Text(lines) == [kind |-> "text", text |-> Join(lines)]

Categories == {"installer", "loggers", "core", "notebooks", "openvino"}

\* lines of requirements/installer.txt: two pinned OpenCV entries, an
\* unpinned one, another package (indented), a comment and a flag
InstallerLines ==
    {OcvReq(r[1], r[2]) : r \in RequiredVersions}
        \cup {OPENCV, <<" ", "n", "p">>, <<"#", "c">>, <<"-", "f">>}

InstallerFiles ==
    {Missing, Undecodable}
        \cup {Text(l) : l \in SeqsUpTo(InstallerLines, MaxInstallerLines)}

FewInstallerFiles ==
    {Missing, Text(<<>>), Text(<<OPENCV>>), Text(<<<<"n", "p">>, OcvReq(4, 5)>>)}

ExtraLines == {<<"a">>, <<" ", "b">>}

ExtraFiles ==
    {Missing, Undecodable}
        \cup {Text(l) : l \in SeqsUpTo(ExtraLines, MaxExtraLines)}

FewExtraFiles == {Missing, Text(<<<<"a">>>>)}

CoreFiles == {Missing, Text(<<<<"c">>>>)}

\* every text over a small alphabet: the two markers, a blank, a newline
Alphabet == {" ", "#", "-", "f", "\n"}

AnyFiles ==
    {Missing, Undecodable}
        \cup {[kind |-> "text", text |-> t] : t \in SeqsUpTo(Alphabet, MaxFileLen)}

\* src/anomalib/__init__.py: defines __version__, is missing, or lacks it
Modules == {"ok", "missing", "noattr"}

\* -------------------------------------------------------------- the state

VARIABLES
    fs,                 \* the files on disk: module, readme, req[category]
    pc,                 \* the statement the interpreter is at
    site,               \* which of the six get_required_packages calls
    bound,              \* the module-level names assigned so far
    VERSION,
    LONG_DESCRIPTION,
    INSTALL_REQUIRES,
    EXTRAS_REQUIRE,     \* the dict literal of lines 82-88, as far as evaluated
    requirement_files,  \* get_required_packages: its argument
    file_idx,           \* get_required_packages: position of the outer loop
    file_pos,           \* get_required_packages: characters read of the open file
    required_packages,  \* get_required_packages: the accumulator
    open_files,         \* the file handles that are open, in opening order
    exc,                \* the exception unwinding through the with block
    error,              \* the exception that ended the run
    cv2_version,        \* cv2.__version__ once cv2 is imported
    setup_calls,        \* how many times setup() was invoked
    setup_args          \* the arguments of the setup() call

globals == <<bound, VERSION, LONG_DESCRIPTION, INSTALL_REQUIRES, EXTRAS_REQUIRE>>

locals == <<requirement_files, file_idx, file_pos, required_packages>>

packaging == <<cv2_version, setup_calls, setup_args>>

vars == <<fs, pc, site, globals, locals, open_files, exc, error, packaging>>

\* __version__ of src/anomalib/__init__.py and the text of README.md
PackageVersion == "1.2.3"

ReadmeText == "readme"

EmptyDict == [k \in {} |-> <<>>]

\* the "full" extra with the core file in it
FullFilesWithCore == <<"loggers", "core", "notebooks", "openvino">>

\* the requirement_files argument of the "full" extra (line 87)
FullFiles == <<"loggers", "notebooks", "openvino">>

\* the six calls of get_required_packages, lines 81-87, in evaluation order
CallSites == <<
    [key |-> "INSTALL_REQUIRES", files |-> <<"installer">>],
    [key |-> "loggers", files |-> <<"loggers">>],
    [key |-> "core", files |-> <<"core">>],
    [key |-> "notebooks", files |-> <<"notebooks">>],
    [key |-> "openvino", files |-> <<"openvino">>],
    [key |-> "full", files |-> FullFiles] >>

NoArgs == [version |-> "None", long_description |-> "None",
           install_requires |-> <<>>, extras_require |-> EmptyDict]

InitWith(modules, readmes, installerFiles, extraFiles, coreFiles, start) ==
    /\ fs \in [module : modules,
               readme : readmes,
               req : [installer : installerFiles, loggers : extraFiles,
                      core : coreFiles, notebooks : extraFiles,
                      openvino : extraFiles]]
    /\ pc = start
    /\ site = 1
    /\ bound = {}
    /\ VERSION = "None"
    /\ LONG_DESCRIPTION = "None"
    /\ INSTALL_REQUIRES = <<>>
    /\ EXTRAS_REQUIRE = EmptyDict
    /\ requirement_files = <<>>
    /\ file_idx = 0
    /\ file_pos = 0
    /\ required_packages = <<>>
    /\ open_files = <<>>
    /\ exc = "None"
    /\ error = "None"
    /\ cv2_version = <<>>
    /\ setup_calls = 0
    /\ setup_args = NoArgs

\* the run of the script, installer file varied
Init == InitWith(Modules, BOOLEAN, InstallerFiles, FewExtraFiles, CoreFiles, "get_version")

\* the run of the script, extras files varied
InitExtras == InitWith(Modules, BOOLEAN, FewInstallerFiles, ExtraFiles, CoreFiles, "get_version")

\* the one file read by get_required_packages on its own
InitCollect == InitWith({"ok"}, {TRUE}, AnyFiles, {Missing}, {Missing}, "call")

\* ------------------------------------------------ lines 14-48, 79 and 80

\* get_version(): load_module executes the module file (FileNotFoundError
\* when it is missing), then the attribute __version__ is read
\* (AttributeError when the module does not define it)
GetVersionOutcome(module) ==
    IF module = "missing" THEN "FileNotFoundError"
    ELSE IF module = "noattr" THEN "AttributeError"
    ELSE "None"

\* line 79: VERSION = get_version()
GetVersion ==
    /\ pc = "get_version"
    /\ IF GetVersionOutcome(fs.module) # "None"
       THEN /\ error' = GetVersionOutcome(fs.module)
            /\ pc' = "error"
            /\ UNCHANGED <<VERSION, bound>>
       ELSE /\ VERSION' = PackageVersion
            /\ bound' = bound \cup {"VERSION"}
            /\ pc' = "read_readme"
            /\ UNCHANGED error
    /\ UNCHANGED <<fs, site, LONG_DESCRIPTION, INSTALL_REQUIRES, EXTRAS_REQUIRE,
                   locals, open_files, exc, packaging>>

\* line 80: LONG_DESCRIPTION = (...).read_text(encoding="utf8")
ReadReadme ==
    /\ pc = "read_readme"
    /\ IF ~fs.readme
       THEN /\ error' = "FileNotFoundError"
            /\ pc' = "error"
            /\ UNCHANGED <<LONG_DESCRIPTION, bound>>
       ELSE /\ LONG_DESCRIPTION' = ReadmeText
            /\ bound' = bound \cup {"LONG_DESCRIPTION"}
            /\ pc' = "call"
            /\ UNCHANGED error
    /\ UNCHANGED <<fs, site, VERSION, INSTALL_REQUIRES, EXTRAS_REQUIRE,
                   locals, open_files, exc, packaging>>

\* ------------------------------------------- get_required_packages, 51-76

\* the test of line 73 without the "-f" marker
KeepsFlags(package) == package # <<>> /\ ~StartsWith(package, <<"#">>)

\* line 73: if package and not package.startswith(("#", "-f"))
Keeps(package) == package # <<>> /\ ~StartsWithMarker(package)

\* the position of the end of the line that starts after position pos: the
\* next newline, or the end of the text
RECURSIVE LineEnd(_, _)
LineEnd(text, pos) ==
    IF pos + 1 >= Len(text) \/ text[pos + 1] = "\n" THEN pos + 1
    ELSE LineEnd(text, pos + 1)

\* iterating a text file yields each line with its line terminator
NextLine(text, pos) == SubSeq(text, pos + 1, LineEnd(text, pos))

\* the file the outer loop is at
CurrentName == requirement_files[file_idx]

CurrentFile == fs.req[CurrentName]

\* lines 81-87: a call of get_required_packages; line 67
CallGetRequiredPackages ==
    /\ pc = "call"
    /\ requirement_files' = CallSites[site].files
    /\ required_packages' = <<>>
    /\ file_idx' = 1
    /\ file_pos' = 0
    /\ pc' = "open"
    /\ UNCHANGED <<fs, site, globals, open_files, exc, error, packaging>>

\* line 70: Path(...).open(encoding="utf8") of a file that exists
OpenFile ==
    /\ pc = "open"
    /\ CurrentFile.kind # "missing"
    /\ open_files' = Append(open_files, CurrentName)
    /\ file_pos' = 0
    /\ pc' = "read"
    /\ UNCHANGED <<fs, site, globals, requirement_files, file_idx,
                   required_packages, exc, error, packaging>>

\* a missing file is skipped in the place of ending the run
OpenFailSkipped ==
    /\ pc = "open"
    /\ CurrentFile.kind = "missing"
    /\ IF file_idx < Len(requirement_files)
       THEN /\ file_idx' = file_idx + 1
            /\ pc' = "open"
       ELSE /\ pc' = "return"
            /\ UNCHANGED file_idx
    /\ UNCHANGED <<fs, site, globals, requirement_files, file_pos,
                   required_packages, open_files, exc, error, packaging>>

\* line 70: open() of a file that does not exist raises FileNotFoundError,
\* which nothing catches
OpenFail ==
    /\ pc = "open"
    /\ CurrentFile.kind = "missing"
    /\ error' = "FileNotFoundError"
    /\ pc' = "error"
    /\ UNCHANGED <<fs, site, globals, locals, open_files, exc, packaging>>

\* lines 71-74: one iteration of the inner loop
ReadLine ==
    /\ pc = "read"
    /\ CurrentFile.kind = "text"
    /\ file_pos < Len(CurrentFile.text)
    /\ LET package == Strip(NextLine(CurrentFile.text, file_pos))
       IN  required_packages' =
               IF Keeps(package) THEN Append(required_packages, package)
               ELSE required_packages
    /\ file_pos' = LineEnd(CurrentFile.text, file_pos)
    /\ UNCHANGED <<fs, pc, site, globals, requirement_files, file_idx,
                   open_files, exc, error, packaging>>

\* line 71: reading a file that is not UTF-8 raises UnicodeDecodeError inside
\* the with block
ReadFail ==
    /\ pc = "read"
    /\ CurrentFile.kind = "bad"
    /\ exc' = "UnicodeDecodeError"
    /\ pc' = "unwind"
    /\ UNCHANGED <<fs, site, globals, locals, open_files, error, packaging>>

\* a with block that does not close its file
WithExitLeaking(handles) == handles

\* the handles left open when the with block of line 70 is left
WithExit(handles) == SubSeq(handles, 1, Len(handles) - 1)

\* line 70: the with block ends at the end of the file; line 69: next file
CloseFile ==
    /\ pc = "read"
    /\ CurrentFile.kind = "text"
    /\ file_pos >= Len(CurrentFile.text)
    /\ open_files' = WithExit(open_files)
    /\ IF file_idx < Len(requirement_files)
       THEN /\ file_idx' = file_idx + 1
            /\ pc' = "open"
       ELSE /\ pc' = "return"
            /\ UNCHANGED file_idx
    /\ UNCHANGED <<fs, site, globals, requirement_files, file_pos,
                   required_packages, exc, error, packaging>>

\* line 70: the with block is left by an exception, which then propagates
CloseOnError ==
    /\ pc = "unwind"
    /\ open_files' = WithExit(open_files)
    /\ error' = exc
    /\ exc' = "None"
    /\ pc' = "error"
    /\ UNCHANGED <<fs, site, globals, locals, packaging>>

\* line 76, and the assignment of the result at the call site (81-88)
ReturnRequiredPackages ==
    /\ pc = "return"
    /\ IF site = 1
       THEN /\ INSTALL_REQUIRES' = required_packages
            /\ bound' = bound \cup {"INSTALL_REQUIRES"}
            /\ UNCHANGED EXTRAS_REQUIRE
       ELSE /\ EXTRAS_REQUIRE' =
                   (CallSites[site].key :> required_packages) @@ EXTRAS_REQUIRE
            /\ bound' = IF site = Len(CallSites)
                        THEN bound \cup {"EXTRAS_REQUIRE"} ELSE bound
            /\ UNCHANGED INSTALL_REQUIRES
    /\ IF site < Len(CallSites)
       THEN /\ site' = site + 1
            /\ pc' = "call"
       ELSE /\ pc' = "import_cv2"
            /\ UNCHANGED site
    /\ requirement_files' = <<>>
    /\ required_packages' = <<>>
    /\ file_idx' = 0
    /\ file_pos' = 0
    /\ UNCHANGED <<fs, VERSION, LONG_DESCRIPTION, open_files, exc, error,
                   packaging>>

Collect ==
    \/ CallGetRequiredPackages
    \/ OpenFile
    \/ OpenFail
    \/ ReadLine
    \/ ReadFail
    \/ CloseFile
    \/ CloseOnError
    \/ ReturnRequiredPackages

SpecCollect == InitCollect /\ [][Collect]_vars

\* ------------------------------------------ lines 90-105, the OpenCV block

\* line 95: the position in reqs of the first requirement that starts with
\* "opencv-python", 0 for None
RECURSIVE OpencvBaseFrom(_, _)
OpencvBaseFrom(reqs, i) ==
    IF i > Len(reqs) THEN 0
    ELSE IF StartsWith(reqs[i], OPENCV) THEN i
    ELSE OpencvBaseFrom(reqs, i + 1)

\* the last requirement that starts with "opencv-python" in the place of
\* the first
RECURSIVE OpencvBaseBack(_, _)
OpencvBaseBack(reqs, i) ==
    IF i = 0 THEN 0
    ELSE IF StartsWith(reqs[i], OPENCV) THEN i
    ELSE OpencvBaseBack(reqs, i - 1)

OpencvBaseLast(reqs) == OpencvBaseBack(reqs, Len(reqs))

OpencvBase(reqs) == OpencvBaseFrom(reqs, 1)

\* line 97: opencv_base.split(">=")[-1]
BaseVersion(opencv_base) ==
    Split(opencv_base, GE)[Len(Split(opencv_base, GE))]

\* the test of line 99 with "or" in the place of "and"
TooOldEither(major, minor, req_major, req_minor) ==
    IF ~IsInt(major) \/ ~IsInt(req_major) THEN "ValueError"
    ELSE IF IntVal(major) < IntVal(req_major) THEN "raise"
    ELSE IF ~IsInt(minor) \/ ~IsInt(req_minor) THEN "ValueError"
    ELSE IF IntVal(minor) < IntVal(req_minor) THEN "raise"
    ELSE "pass"

\* line 99: int(major) < int(req_major) and int(minor) < int(req_minor),
\* evaluated left to right with the short circuit of "and"; the value is
\* "raise" when the condition is true, "pass" when it is false and
\* "ValueError" when an int() that is evaluated fails
TooOld(major, minor, req_major, req_minor) ==
    IF ~IsInt(major) \/ ~IsInt(req_major) THEN "ValueError"
    ELSE IF ~(IntVal(major) < IntVal(req_major)) THEN "pass"
    ELSE IF ~IsInt(minor) \/ ~IsInt(req_minor) THEN "ValueError"
    ELSE IF IntVal(minor) < IntVal(req_minor) THEN "raise"
    ELSE "pass"

\* lines 94-103 for an installed version text and a list of requirements:
\* the exception raised ("None" for none) and the list afterwards
Reconcile(version, reqs) ==
    LET parts == Split(version, DOT)
        base == OpencvBase(reqs)
        rparts == Split(BaseVersion(reqs[base]), DOT)
    IN  IF Len(parts) < 2
        THEN [error |-> "ValueError", reqs |-> reqs]
        ELSE IF base = 0
        THEN [error |-> "None", reqs |-> reqs]
        ELSE IF Len(rparts) < 2
        THEN [error |-> "ValueError", reqs |-> reqs]
        ELSE IF TooOld(parts[1], parts[2], rparts[1], rparts[2]) = "ValueError"
        THEN [error |-> "ValueError", reqs |-> reqs]
        ELSE IF TooOld(parts[1], parts[2], rparts[1], rparts[2]) = "raise"
        THEN [error |-> "RuntimeError", reqs |-> reqs]
        ELSE [error |-> "None", reqs |-> ListRemove(reqs, reqs[base])]

\* line 92: import cv2 succeeds; the environment holds some OpenCV
ImportCv2 ==
    /\ pc = "import_cv2"
    /\ \E v \in InstalledVersions : cv2_version' = VerStr(v[1], v[2], 0)
    /\ bound' = bound \cup {"cv2"}
    /\ pc' = "reconcile"
    /\ UNCHANGED <<fs, site, VERSION, LONG_DESCRIPTION, INSTALL_REQUIRES,
                   EXTRAS_REQUIRE, locals, open_files, exc, error,
                   setup_calls, setup_args>>

\* the handler of ImportError drops the OpenCV requirement too
ImportCv2FailsDropping ==
    /\ pc = "import_cv2"
    /\ pc' = "setup"
    /\ INSTALL_REQUIRES' =
           IF OpencvBase(INSTALL_REQUIRES) = 0 THEN INSTALL_REQUIRES
           ELSE RemoveAt(INSTALL_REQUIRES, OpencvBase(INSTALL_REQUIRES))
    /\ UNCHANGED <<fs, site, bound, VERSION, LONG_DESCRIPTION, EXTRAS_REQUIRE,
                   locals, open_files, exc, error, packaging>>

\* line 92: import cv2 raises ImportError, caught at line 104; line 105
ImportCv2Fails ==
    /\ pc = "import_cv2"
    /\ pc' = "setup"
    /\ UNCHANGED <<fs, site, globals, locals, open_files, exc, error, packaging>>

\* lines 94-103; an exception other than ImportError is not caught
ReconcileOpenCV ==
    /\ pc = "reconcile"
    /\ LET r == Reconcile(cv2_version, INSTALL_REQUIRES)
       IN  /\ INSTALL_REQUIRES' = r.reqs
           /\ error' = r.error
           /\ pc' = IF r.error = "None" THEN "setup" ELSE "error"
    /\ UNCHANGED <<fs, site, bound, VERSION, LONG_DESCRIPTION, EXTRAS_REQUIRE,
                   locals, open_files, exc, packaging>>

\* ------------------------------------------------------- lines 107-125

\* the arguments are evaluated (get_version() again, line 109), then setup()
\* is invoked
Setup ==
    /\ pc = "setup"
    /\ IF GetVersionOutcome(fs.module) # "None"
       THEN /\ error' = GetVersionOutcome(fs.module)
            /\ pc' = "error"
            /\ UNCHANGED <<setup_calls, setup_args>>
       ELSE /\ setup_calls' = setup_calls + 1
            /\ setup_args' = [version |-> PackageVersion,
                              long_description |-> LONG_DESCRIPTION,
                              install_requires |-> INSTALL_REQUIRES,
                              extras_require |-> EXTRAS_REQUIRE]
            /\ pc' = "done"
            /\ UNCHANGED error
    /\ UNCHANGED <<fs, site, globals, locals, open_files, exc, cv2_version>>

Next ==
    \/ GetVersion
    \/ ReadReadme
    \/ Collect
    \/ ImportCv2
    \/ ImportCv2Fails
    \/ ReconcileOpenCV
    \/ Setup

Spec == Init /\ [][Next]_vars

SpecExtras == InitExtras /\ [][Next]_vars

\* ===================================================== the properties

\* what the properties say of a requirement file, stated without the
\* operators of the code above

Range(list) == {list[i] : i \in 1..Len(list)}

\* l[i..j] is l without its leading and trailing whitespace
IsTrimOf(i, j, l) ==
    /\ \A k \in 1..(i - 1) : l[k] \in Whitespace
    /\ \A k \in (j + 1)..Len(l) : l[k] \in Whitespace
    /\ i <= j => (l[i] \notin Whitespace /\ l[j] \notin Whitespace)

Trimmed(l) ==
    LET p == CHOOSE p \in (1..(Len(l) + 1)) \X (0..Len(l)) :
                 IsTrimOf(p[1], p[2], l)
    IN  SubSeq(l, p[1], p[2])

\* a requirement: not empty, starts with neither "#" nor "-f"
IsRequirement(t) ==
    /\ t # <<>>
    /\ t[1] # "#"
    /\ ~(Len(t) >= 2 /\ t[1] = "-" /\ t[2] = "f")

\* the lines of a text: what stands between two newlines, before the first
\* and after the last
Newlines(text) == {i \in 1..Len(text) : text[i] = "\n"} \cup {0, Len(text) + 1}

Lines(text) ==
    [n \in 1..(Cardinality(Newlines(text)) - 1) |->
        LET from == CHOOSE i \in Newlines(text) :
                        Cardinality({j \in Newlines(text) : j < i}) = n - 1
            to == CHOOSE i \in Newlines(text) :
                        Cardinality({j \in Newlines(text) : j < i}) = n
        IN  SubSeq(text, from + 1, to - 1)]

\* the requirements of a file, in file order
Requirements(text) ==
    LET lines == Lines(text)
    IN  SelectSeq([i \in 1..Len(lines) |-> Trimmed(lines[i])], IsRequirement)

\* the list collected from requirements/installer.txt
InstallerList == Requirements(fs.req["installer"].text)

IsOpencv(t) == Len(t) >= Len(OPENCV) /\ \A k \in 1..Len(OPENCV) : t[k] = OPENCV[k]

\* the positions of the OpenCV entries of a list
OpencvAt(list) == {i \in 1..Len(list) : IsOpencv(list[i])}

\* the first OpenCV entry of a list that has one
FirstOpencv(list) ==
    list[CHOOSE i \in OpencvAt(list) : \A j \in OpencvAt(list) : i <= j]

\* the run is over: setup() has returned or an exception ended the script
Over == pc \in {"done", "error"}

\* cv2 was imported with version v and the first OpenCV entry of the
\* installer list asks for at least version r
Probe(v, r) ==
    /\ "cv2" \in bound
    /\ cv2_version = VerStr(v[1], v[2], 0)
    /\ LET list == InstallerList
       IN  OpencvAt(list) # {} /\ FirstOpencv(list) = OcvReq(r[1], r[2])

\* version v is older than version r
Older(v, r) == v[1] < r[1] \/ (v[1] = r[1] /\ v[2] < r[2])

\* C1: whenever cv2 is importable and its version is older than the minimum
\* of the opencv-python>=... entry of the installer list, the script raises
\* a fatal error and setup() is never invoked.
C1_FatalWhenOlder ==
    ("cv2" \in bound /\ pc \in {"setup", "done", "error"}) =>
        \A v \in InstalledVersions, r \in RequiredVersions :
            (Probe(v, r) /\ Older(v, r)) => (pc = "error" /\ setup_calls = 0)

\* C2: get_required_packages on one file returns exactly the trimmed lines
\* that are not empty and start with neither "#" nor "-f", in file order.
C2_ExactlyTheRequirements ==
    /\ (pc = "return" /\ site = 1)
           => required_packages = Requirements(fs.req["installer"].text)
    /\ "INSTALL_REQUIRES" \in bound
           => INSTALL_REQUIRES = Requirements(fs.req["installer"].text)

\* a comment line dropped and an indented line kept, trimmed
C2_Witness ==
    /\ "INSTALL_REQUIRES" \in bound
    /\ fs.req["installer"].text = <<"#", "f", "\n", " ", "f">>
    /\ INSTALL_REQUIRES = << <<"f">> >>

\* C3: whenever cv2 is importable and its version meets the minimum of the
\* opencv-python>=... entry of the installer list, no error is raised and
\* the install_requires passed to setup() does not contain that entry.
C3_EntryGone ==
    ("cv2" \in bound /\ Over) =>
        \A v \in InstalledVersions, r \in RequiredVersions :
            (Probe(v, r) /\ ~Older(v, r))
                => /\ pc = "done"
                   /\ OcvReq(r[1], r[2]) \notin Range(setup_args.install_requires)

\* C4: whenever cv2 is not importable the script raises no error, setup() is
\* invoked and the install_requires it gets is the list collected from the
\* installer file, same elements, same order.
C4_State ==
    ("cv2" \notin bound /\ pc \in {"setup", "done"})
        => /\ error = "None"
           /\ INSTALL_REQUIRES = InstallerList
           /\ pc = "done" => /\ setup_calls = 1
                             /\ setup_args.install_requires = InstallerList

C4_Step ==
    /\ (pc = "import_cv2" /\ "cv2" \notin bound') => pc' = "setup"
    /\ (pc = "setup" /\ "cv2" \notin bound) => pc' = "done"

C4_UnchangedWithoutCv2 == [](C4_State) /\ [][C4_Step]_vars

\* setup() got the OpenCV entry, and a line of the file was no requirement
C4_Witness ==
    /\ pc = "done"
    /\ "cv2" \notin bound
    /\ OcvReq(4, 5) \in Range(setup_args.install_requires)
    /\ Len(Lines(fs.req["installer"].text)) > Len(setup_args.install_requires) + 1

\* the first OpenCV entry of the installer list asks for more than the
\* installed version has in both the major and the minor component
BothLess ==
    \E v \in InstalledVersions, r \in RequiredVersions :
        Probe(v, r) /\ v[1] < r[1] /\ v[2] < r[2]

\* the first OpenCV entry of the installer list carries no dotted version
Unversioned ==
    LET list == InstallerList
    IN  OpencvAt(list) # {} /\ "." \notin Range(FirstOpencv(list))

C6_FullIsConcatenation ==
    /\ "full" \in DOMAIN EXTRAS_REQUIRE
           => EXTRAS_REQUIRE["full"] =
                  EXTRAS_REQUIRE["loggers"] \o EXTRAS_REQUIRE["notebooks"]
                      \o EXTRAS_REQUIRE["openvino"]
    /\ setup_calls = 1
           => /\ setup_args.extras_require["full"] =
                     setup_args.extras_require["loggers"]
                         \o setup_args.extras_require["notebooks"]
                         \o setup_args.extras_require["openvino"]
              /\ setup_args.extras_require["full"] =
                     Requirements(fs.req["loggers"].text)
                         \o Requirements(fs.req["notebooks"].text)
                         \o Requirements(fs.req["openvino"].text)

\* "a" is in the loggers and in the openvino file and twice in "full"
C6_Witness ==
    /\ setup_calls = 1
    /\ setup_args.extras_require["core"] = << <<"c">> >>
    /\ setup_args.extras_require["full"] = << <<"a">>, <<"b">>, <<"a">> >>

\* a clean requirement: no whitespace at either end, not empty, no marker
Clean(t) ==
    /\ IsRequirement(t)
    /\ t[1] \notin Whitespace
    /\ t[Len(t)] \notin Whitespace

\* C7: in every reachable state every element of INSTALL_REQUIRES, of every
\* EXTRAS_REQUIRE list and of the accumulator of get_required_packages is a
\* non-empty string without leading or trailing whitespace that starts with
\* neither "#" nor "-f", also after the OpenCV reconciliation.
C7_EveryElementClean ==
    \A t \in Range(INSTALL_REQUIRES) \cup Range(required_packages)
                \cup Range(setup_args.install_requires)
                \cup UNION {Range(EXTRAS_REQUIRE[k]) : k \in DOMAIN EXTRAS_REQUIRE} :
        Clean(t)

\* the reconciliation removed the OpenCV entry, the indented one is left
C7_Witness ==
    /\ pc = "done"
    /\ "cv2" \in bound
    /\ fs.req["installer"] = Text(<<OcvReq(4, 5), <<" ", "n", "p">>>>)
    /\ setup_args.install_requires = << <<"n", "p">> >>

\* C8: setup() is invoked at most once, and only after the version load, the
\* README read, the six collections and the reconciliation have completed
\* without error; a failure of any of them is not caught or retried, ends the
\* run, and setup() is never invoked.
C8_State ==
    /\ setup_calls <= 1
    /\ setup_calls = 1 =>
           /\ pc = "done"
           /\ error = "None"
           /\ {"VERSION", "LONG_DESCRIPTION", "INSTALL_REQUIRES",
               "EXTRAS_REQUIRE"} \subseteq bound
           /\ DOMAIN EXTRAS_REQUIRE =
                  {"loggers", "core", "notebooks", "openvino", "full"}
           /\ fs.module = "ok"
           /\ fs.readme
           /\ \A c \in Categories : fs.req[c].kind = "text"
           /\ "cv2" \in bound => (~BothLess /\ ~Unversioned)
    /\ error # "None" => (pc = "error" /\ setup_calls = 0)

C8_Step ==
    /\ error # "None" => UNCHANGED vars
    /\ setup_calls' # setup_calls
           => (pc = "setup" /\ site = Len(CallSites) /\ setup_calls' = 1)

C8_SetupOnlyAfterAll == [](C8_State) /\ [][C8_Step]_vars

\* requirements/openvino.txt is missing: the fifth collection ends the run
C8_Witness ==
    /\ pc = "error"
    /\ error = "FileNotFoundError"
    /\ site = 5
    /\ setup_calls = 0

\* C9: at most one requirement file handle is open at any point; a handle is
\* closed before the next file is opened and before get_required_packages
\* returns or raises, so none is open when setup() is invoked or when the run
\* ends, normally or by a fatal error.
C9_HandlesReleased ==
    /\ Len(open_files) <= 1
    /\ pc \notin {"read", "unwind"} => open_files = <<>>
    /\ setup_calls = 1 => open_files = <<>>

\* the read of a file raised inside the with block and the run ended
C9_Witness ==
    /\ pc = "error"
    /\ error = "UnicodeDecodeError"
    /\ site = 4
    /\ open_files = <<>>

\* C10: the reconciliation removes at most one element of INSTALL_REQUIRES,
\* the first that starts with "opencv-python", and leaves the others and
\* their order; it never changes EXTRAS_REQUIRE; with cv2 importable and no
\* such element, INSTALL_REQUIRES is unchanged and no error is raised.
C10_Step ==
    pc \in {"import_cv2", "reconcile"} =>
        /\ EXTRAS_REQUIRE' = EXTRAS_REQUIRE
        /\ \/ INSTALL_REQUIRES' = INSTALL_REQUIRES
           \/ /\ OpencvAt(INSTALL_REQUIRES) # {}
              /\ Len(INSTALL_REQUIRES') = Len(INSTALL_REQUIRES) - 1
              /\ \A k \in 1..Len(INSTALL_REQUIRES') :
                     INSTALL_REQUIRES'[k] =
                         IF \E i \in OpencvAt(INSTALL_REQUIRES) : i <= k
                         THEN INSTALL_REQUIRES[k + 1]
                         ELSE INSTALL_REQUIRES[k]
        /\ (pc = "reconcile" /\ OpencvAt(INSTALL_REQUIRES) = {})
               => /\ INSTALL_REQUIRES' = INSTALL_REQUIRES
                  /\ error' = "None"
                  /\ pc' = "setup"

====
